---- MODULE Spec2Model ----
(***************************************************************************)
(* A model of mongoagg's AggBuilder (src/mongoagg/core.py) and of the      *)
(* typed stages of src/mongoagg/models.py.                                 *)
(*                                                                         *)
(* Python values are tagged records, one field name per Python type, so    *)
(* that values of different types are unequal without being compared:      *)
(*   int  [t |-> "int",  n |-> 1]       bool [t |-> "bool", b |-> TRUE]    *)
(*   str  [t |-> "str",  s |-> "x"]     None [t |-> "none"]                *)
(*   dict [t |-> "dict", d |-> f]       list [t |-> "list", l |-> seq]     *)
(* A dict with string keys is a function from its keys to its values       *)
(* (Python dict equality ignores insertion order, as function equality     *)
(* does).  A dict whose single key is an int is [t |-> "dict", ik, iv].    *)
(***************************************************************************)
EXTENDS Integers, Sequences, FiniteSets, TLC

VARIABLES
    pipeline,   \* AggBuilder._pipeline: the Pipeline object each builder holds
    stages,     \* Pipeline.stages of every Pipeline object
    last,       \* the last call: method, builder, what it raised, what it returned
    added       \* history: the wire forms appended through each builder, in call order

vars == <<pipeline, stages, last, added>>

(***************************************************************************)
(* Bounds of the model.                                                    *)
(***************************************************************************)
MaxStages == 2
MaxRaw == 1

(***************************************************************************)
(* Python values.                                                          *)
(***************************************************************************)
PyInt(n) == [t |-> "int", n |-> n]
PyBool(b) == [t |-> "bool", b |-> b]
PyStr(s) == [t |-> "str", s |-> s]
None == [t |-> "none"]
PyDict(f) == [t |-> "dict", d |-> f]
PyList(l) == [t |-> "list", l |-> l]
IntKeyDict(k, v) == [t |-> "dict", ik |-> k, iv |-> v]
\* a dict whose single key is a tuple
TupleKeyDict(k, v) == [t |-> "dict", tk |-> k, tv |-> v]
\* an instance of a class json does not know; r is what str() gives for it
PyObject(r) == [t |-> "object", r |-> r]

EmptyMap == [k \in {} |-> None]

\* isinstance(v, dict)
IsDict(v) == v.t = "dict"
\* a dict all of whose keys are strings
IsStrDict(v) == v.t = "dict" /\ "d" \in DOMAIN v
\* isinstance(v, list)
IsList(v) == v.t = "list"
\* isinstance(v, str)
IsStr(v) == v.t = "str"
\* isinstance(v, int): bool is a subclass of int
IsInt(v) == v.t \in {"int", "bool"}
\* the integer a Python int or bool counts as in arithmetic and comparison
IntOf(v) == IF v.t = "bool" THEN (IF v.b THEN 1 ELSE 0) ELSE v.n
\* x == n for a value x and an int literal n (True == 1 and False == 0 hold in Python)
PyEqInt(x, n) == IsInt(x) /\ IntOf(x) = n
\* len(d) of a dict
DictLen(v) == IF IsStrDict(v) THEN Cardinality(DOMAIN v.d) ELSE 1
\* list(d.keys())[0] of a dict with exactly one key
FirstKey(v) ==
    IF IsStrDict(v) THEN PyStr(CHOOSE k \in DOMAIN v.d : TRUE) ELSE PyInt(v.ik)
\* d[k] for the key list(d.keys())[0]
FirstValue(v) ==
    IF IsStrDict(v) THEN v.d[CHOOSE k \in DOMAIN v.d : TRUE] ELSE v.iv
\* k in d, for a string k
HasKey(v, k) == IsStrDict(v) /\ k \in DOMAIN v.d
\* str.startswith
StartsWith(s, p) == Len(s) >= Len(p) /\ SubSeq(s, 1, Len(p)) = p
\* bool(v) for the values a lookup field takes: None and "" are falsy
Truthy(v) ==
    CASE v.t = "none" -> FALSE
      [] v.t = "str" -> Len(v.s) > 0
      [] v.t = "int" -> v.n # 0
      [] v.t = "bool" -> v.b
      [] v.t = "list" -> Len(v.l) > 0
      [] v.t = "dict" -> DictLen(v) > 0

(***************************************************************************)
(* What a call does: it returns a value or raises an exception.            *)
(***************************************************************************)
Returns(v) == [raised |-> "none", val |-> v]
Raises(e) == [raised |-> e]

(***************************************************************************)
(* models.py: the typed stages.  Constructing one runs pydantic's          *)
(* validation of the declared field types (in its default, lax mode);      *)
(* to_mongo() gives the wire form.                                         *)
(***************************************************************************)
\* a field declared int: an int is kept, a bool becomes the int 0 or 1
LaxInt(v) ==
    CASE v.t = "int" -> Returns(v)
      [] v.t = "bool" -> Returns(PyInt(IntOf(v)))
      [] v.t \in {"none", "dict", "list"} -> Raises("ValidationError")

\* a field declared Dict[str, Any]
IsDictStrAny(v) == IsStrDict(v)
\* a field declared List[Dict[str, Any]]
IsListOfDicts(v) == IsList(v) /\ \A i \in 1..Len(v.l) : IsDictStrAny(v.l[i])
\* a field declared Dict[str, int]
IsDictStrInt(v) ==
    IsStrDict(v) /\ \A k \in DOMAIN v.d : LaxInt(v.d[k]).raised = "none"
\* a field declared Dict[str, List[Dict[str, Any]]]
IsDictOfPipelines(v) == IsStrDict(v) /\ \A k \in DOMAIN v.d : IsListOfDicts(v.d[k])

MatchStage(match) ==
    IF IsDictStrAny(match)
    THEN Returns([cls |-> "MatchStage", match |-> match])
    ELSE Raises("ValidationError")

ProjectStage(project) ==
    IF IsDictStrAny(project)
    THEN Returns([cls |-> "ProjectStage", project |-> project])
    ELSE Raises("ValidationError")

SortStage(sort) ==
    IF IsDictStrInt(sort)
    THEN Returns([cls |-> "SortStage",
                  sort |-> PyDict([k \in DOMAIN sort.d |-> LaxInt(sort.d[k]).val])])
    ELSE Raises("ValidationError")

\* LimitStage without ge=0
LimitStageUnbounded(limit) ==
    LET n == LaxInt(limit)
    IN  IF n.raised = "none"
        THEN Returns([cls |-> "LimitStage", limit |-> n.val])
        ELSE Raises("ValidationError")

LimitStage(limit) ==
    LET n == LaxInt(limit)
    IN  IF n.raised = "none" /\ n.val.n >= 0
        THEN Returns([cls |-> "LimitStage", limit |-> n.val])
        ELSE Raises("ValidationError")

SkipStage(skip) ==
    LET n == LaxInt(skip)
    IN  IF n.raised = "none" /\ n.val.n >= 0
        THEN Returns([cls |-> "SkipStage", skip |-> n.val])
        ELSE Raises("ValidationError")

\* str.lower, letter by letter
UpperLetters == "ABCDEFGHIJKLMNOPQRSTUVWXYZ"
LowerLetters == "abcdefghijklmnopqrstuvwxyz"
LowerChar(c) ==
    IF \E i \in 1..26 : SubSeq(UpperLetters, i, i) = c
    THEN LET i == CHOOSE j \in 1..26 : SubSeq(UpperLetters, j, j) = c
         IN  SubSeq(LowerLetters, i, i)
    ELSE c
RECURSIVE StrLower(_)
StrLower(s) ==
    IF s = "" THEN ""
    ELSE LowerChar(SubSeq(s, 1, 1)) \o StrLower(SubSeq(s, 2, Len(s)))

\* the strings a field declared bool takes for true and for false, in any case
TrueWords == {"1", "on", "t", "true", "y", "yes"}
FalseWords == {"0", "off", "f", "false", "n", "no"}

\* a field declared bool: a bool is kept, the ints 1 and 0 and the words for true
\* and false become the bool they stand for
LaxBool(v) ==
    CASE v.t = "bool" -> Returns(v)
      [] v.t = "int" -> IF v.n \in {0, 1} THEN Returns(PyBool(v.n = 1))
                        ELSE Raises("ValidationError")
      [] v.t = "str" -> IF StrLower(v.s) \in TrueWords THEN Returns(PyBool(TRUE))
                        ELSE IF StrLower(v.s) \in FalseWords THEN Returns(PyBool(FALSE))
                        ELSE Raises("ValidationError")
      [] OTHER -> Raises("ValidationError")

\* preserve_null_and_empty has the default True when it is left out
UnwindStage(path, preserve_null_and_empty) ==
    LET flag == IF preserve_null_and_empty.t = "omitted"
                THEN Returns(PyBool(TRUE)) ELSE LaxBool(preserve_null_and_empty)
    IN  IF IsStr(path) /\ flag.raised = "none"
        THEN Returns([cls |-> "UnwindStage", path |-> path,
                      preserve_null_and_empty |-> flag.val])
        ELSE Raises("ValidationError")

GroupStage(id_field, accumulators) ==
    IF IsDictStrAny(accumulators)
    THEN Returns([cls |-> "GroupStage", id_field |-> id_field,
                  accumulators |-> accumulators])
    ELSE Raises("ValidationError")

AddFieldsStage(fields) ==
    IF IsDictStrAny(fields)
    THEN Returns([cls |-> "AddFieldsStage", fields |-> fields])
    ELSE Raises("ValidationError")

ReplaceRootStage(new_root) ==
    IF IsDictStrAny(new_root)
    THEN Returns([cls |-> "ReplaceRootStage", new_root |-> new_root])
    ELSE Raises("ValidationError")

LookupStage(from_, as_, local_field, foreign_field, let_, pipeline_) ==
    IF /\ IsStr(from_) /\ IsStr(as_)
       /\ local_field.t \in {"none", "str"}
       /\ foreign_field.t \in {"none", "str"}
       /\ (let_.t = "none" \/ IsDictStrAny(let_))
       /\ (pipeline_.t = "none" \/ IsListOfDicts(pipeline_))
    THEN Returns([cls |-> "LookupStage", from_ |-> from_, as_ |-> as_,
                  local_field |-> local_field, foreign_field |-> foreign_field,
                  let_ |-> let_, pipeline |-> pipeline_])
    ELSE Raises("ValidationError")

FacetStage(pipelines) ==
    IF IsDictOfPipelines(pipelines)
    THEN Returns([cls |-> "FacetStage", pipelines |-> pipelines])
    ELSE Raises("ValidationError")

RedactStage(condition) ==
    IF IsDictStrAny(condition)
    THEN Returns([cls |-> "RedactStage", condition |-> condition])
    ELSE Raises("ValidationError")

CommentStage(text) ==
    IF IsStr(text)
    THEN Returns([cls |-> "CommentStage", text |-> text])
    ELSE Raises("ValidationError")

\* to_mongo leaving 'let' out when there are no bound variables
LookupToMongoOmitsNone(st) ==
    LET lookup == ("from" :> st.from_) @@ ("as" :> st.as_)
    IN  IF st.pipeline.t # "none"
        THEN PyDict(("pipeline" :> st.pipeline)
                    @@ (IF st.let_.t # "none" THEN "let" :> st.let_ ELSE EmptyMap)
                    @@ lookup)
        ELSE PyDict(("foreignField" :> st.foreign_field)
                    @@ ("localField" :> st.local_field) @@ lookup)

\* LookupStage.to_mongo
LookupToMongo(st) ==
    LET lookup == ("from" :> st.from_) @@ ("as" :> st.as_)
    IN  IF st.pipeline.t # "none"
        THEN PyDict(("pipeline" :> st.pipeline) @@ ("let" :> st.let_) @@ lookup)
        ELSE PyDict(("foreignField" :> st.foreign_field)
                    @@ ("localField" :> st.local_field) @@ lookup)

\* GroupStage.to_mongo: {"_id": id_field, **accumulators}, a later key winning
GroupToMongo(st) ==
    PyDict("$group" :> PyDict(st.accumulators.d @@ ("_id" :> st.id_field)))

\* Stage.to_mongo of each subclass
to_mongo(st) ==
    CASE st.cls = "MatchStage" -> PyDict("$match" :> st.match)
      [] st.cls = "ProjectStage" -> PyDict("$project" :> st.project)
      [] st.cls = "SortStage" -> PyDict("$sort" :> st.sort)
      [] st.cls = "LimitStage" -> PyDict("$limit" :> st.limit)
      [] st.cls = "SkipStage" -> PyDict("$skip" :> st.skip)
      [] st.cls = "UnwindStage" ->
            PyDict("$unwind" :> PyDict(("path" :> st.path)
                @@ ("preserveNullAndEmptyArrays" :> st.preserve_null_and_empty)))
      [] st.cls = "GroupStage" -> GroupToMongo(st)
      [] st.cls = "AddFieldsStage" -> PyDict("$addFields" :> st.fields)
      [] st.cls = "ReplaceRootStage" ->
            PyDict("$replaceRoot" :> PyDict("newRoot" :> st.new_root))
      [] st.cls = "LookupStage" -> PyDict("$lookup" :> LookupToMongo(st))
      [] st.cls = "FacetStage" -> PyDict("$facet" :> st.pipelines)
      [] st.cls = "RedactStage" -> PyDict("$redact" :> st.condition)
      [] st.cls = "CommentStage" -> PyDict("$comment" :> st.text)

\* isinstance(x, Stage)
IsStage(x) == "cls" \in DOMAIN x

(***************************************************************************)
(* core.py: AggBuilder.  `self` is the builder's container, the list       *)
(* self._pipeline.stages; a method gives what it raises and the container  *)
(* it leaves.                                                              *)
(***************************************************************************)
\* append() run twice
AppendedTwice(self, wire) ==
    [raised |-> "none", stages |-> Append(Append(self, wire), wire), wire |-> wire]
\* insert(0, ...) in place of append()
Prepended(self, wire) ==
    [raised |-> "none", stages |-> <<wire>> \o self, wire |-> wire]
\* the new stage overwrites the last one
ReplacedLast(self, wire) ==
    [raised |-> "none",
     stages |-> IF self = <<>> THEN <<wire>>
                ELSE Append(SubSeq(self, 1, Len(self) - 1), wire),
     wire |-> wire]

Appended(self, wire) == [raised |-> "none", stages |-> Append(self, wire), wire |-> wire]
Failed(e, self) == [raised |-> e, stages |-> self, wire |-> None]

\* add() without the checks of a raw value
AddUnchecked(self, stage) ==
    IF IsStage(stage) THEN Appended(self, to_mongo(stage)) ELSE Appended(self, stage)

\* AggBuilder.add
add(self, stage) ==
    IF IsStage(stage)
    THEN Appended(self, to_mongo(stage))
    ELSE IF ~IsDict(stage)
    THEN Failed("InvalidStageError", self)
    ELSE IF DictLen(stage) # 1
    THEN Failed("InvalidStageError", self)
    ELSE LET stage_name == FirstKey(stage)
         IN  IF ~IsStr(stage_name)
             THEN Failed("AttributeError", self)   \* an int has no startswith
             ELSE IF ~StartsWith(stage_name.s, "$")
             THEN Failed("InvalidStageError", self)
             ELSE Appended(self, stage)

\* a convenience method: construct the typed stage, then add() it
AddConstructed(self, c) ==
    IF c.raised # "none" THEN Failed(c.raised, self) ELSE add(self, c.val)

\* the values of a dict, as stage_value.items() yields them
DictValues(v) == IF IsStrDict(v) THEN {v.d[k] : k \in DOMAIN v.d} ELSE {v.iv}

\* the $lookup branch without the 'let' requirement
ValidateLookupLetOptional(stage_value) ==
    IF ~IsDict(stage_value) THEN "InvalidStageError"
    ELSE IF ~HasKey(stage_value, "from") THEN "InvalidStageError"
    ELSE IF ~HasKey(stage_value, "as") THEN "InvalidStageError"
    ELSE IF ~HasKey(stage_value, "pipeline")
    THEN IF ~HasKey(stage_value, "localField") THEN "InvalidStageError"
         ELSE IF ~HasKey(stage_value, "foreignField") THEN "InvalidStageError"
         ELSE "none"
    ELSE IF ~IsList(stage_value.d["pipeline"]) THEN "InvalidStageError"
    ELSE "none"

\* a $lookup branch that also looks at the shape of the nested stages
ValidateLookupDeep(stage_value) ==
    IF ~IsDict(stage_value) THEN "InvalidStageError"
    ELSE IF ~HasKey(stage_value, "from") THEN "InvalidStageError"
    ELSE IF ~HasKey(stage_value, "as") THEN "InvalidStageError"
    ELSE IF ~HasKey(stage_value, "pipeline")
    THEN IF ~HasKey(stage_value, "localField") THEN "InvalidStageError"
         ELSE IF ~HasKey(stage_value, "foreignField") THEN "InvalidStageError"
         ELSE "none"
    ELSE IF ~IsList(stage_value.d["pipeline"]) THEN "InvalidStageError"
    ELSE IF ~HasKey(stage_value, "let") THEN "InvalidStageError"
    ELSE IF \E i \in 1..Len(stage_value.d["pipeline"].l) :
               LET nested == stage_value.d["pipeline"].l[i]
               IN  ~(/\ IsStrDict(nested) /\ DictLen(nested) = 1
                     /\ StartsWith(FirstKey(nested).s, "$"))
    THEN "InvalidStageError"
    ELSE "none"

\* validate_pipeline, the $lookup branch
ValidateLookup(stage_value) ==
    IF ~IsDict(stage_value) THEN "InvalidStageError"
    ELSE IF ~HasKey(stage_value, "from") THEN "InvalidStageError"
    ELSE IF ~HasKey(stage_value, "as") THEN "InvalidStageError"
    ELSE IF ~HasKey(stage_value, "pipeline")
    THEN IF ~HasKey(stage_value, "localField") THEN "InvalidStageError"
         ELSE IF ~HasKey(stage_value, "foreignField") THEN "InvalidStageError"
         ELSE "none"
    ELSE IF ~IsList(stage_value.d["pipeline"]) THEN "InvalidStageError"
    ELSE IF ~HasKey(stage_value, "let") THEN "InvalidStageError"
    ELSE "none"

\* validate_pipeline, the $sort branch: direction not in (1, -1)
ValidateSort(stage_value) ==
    IF ~IsDict(stage_value) THEN "InvalidStageError"
    ELSE IF \E direction \in DictValues(stage_value) :
                ~(PyEqInt(direction, 1) \/ PyEqInt(direction, -1))
    THEN "InvalidStageError"
    ELSE "none"

\* validate_pipeline, the $limit and $skip branch
ValidateCount(stage_value) ==
    IF ~IsInt(stage_value) \/ IntOf(stage_value) < 0
    THEN "InvalidStageError" ELSE "none"

\* an $unwind branch that takes the short form only
ValidateUnwindStringOnly(stage_value) ==
    IF IsStr(stage_value) THEN "none" ELSE "InvalidStageError"

\* validate_pipeline, the $unwind branch
ValidateUnwind(stage_value) ==
    IF IsStr(stage_value) THEN "none"
    ELSE IF ~IsDict(stage_value) THEN "InvalidStageError"
    ELSE IF ~HasKey(stage_value, "path") THEN "InvalidStageError"
    ELSE "none"

\* the loop body without the checks of the stage's own shape
ValidateStageKindOnly(stage) ==
    IF ~IsStrDict(stage) \/ DictLen(stage) # 1 THEN "none"
    ELSE LET stage_name == FirstKey(stage)
             stage_value == FirstValue(stage)
         IN  CASE stage_name.s = "$lookup" -> ValidateLookup(stage_value)
               [] stage_name.s \in {"$match", "$project"} ->
                    IF ~IsDict(stage_value) THEN "InvalidStageError" ELSE "none"
               [] stage_name.s = "$sort" -> ValidateSort(stage_value)
               [] stage_name.s \in {"$limit", "$skip"} -> ValidateCount(stage_value)
               [] stage_name.s = "$unwind" -> ValidateUnwind(stage_value)
               [] OTHER -> "none"

\* validate_pipeline, the body of the loop for one stage: what it raises
ValidateStage(stage) ==
    IF ~IsDict(stage) THEN "InvalidStageError"
    ELSE IF DictLen(stage) # 1 THEN "InvalidStageError"
    ELSE LET stage_name == FirstKey(stage)
             stage_value == FirstValue(stage)
         IN  IF ~IsStr(stage_name) THEN "AttributeError"
             ELSE IF ~StartsWith(stage_name.s, "$") THEN "InvalidStageError"
             ELSE CASE stage_name.s = "$lookup" -> ValidateLookup(stage_value)
                    [] stage_name.s \in {"$match", "$project"} ->
                         IF ~IsDict(stage_value) THEN "InvalidStageError" ELSE "none"
                    [] stage_name.s = "$sort" -> ValidateSort(stage_value)
                    [] stage_name.s \in {"$limit", "$skip"} -> ValidateCount(stage_value)
                    [] stage_name.s = "$unwind" -> ValidateUnwind(stage_value)
                    [] OTHER -> "none"

\* AggBuilder.validate_pipeline: the first stage that breaks a rule raises
validate_pipeline(self) ==
    LET bad == {i \in 1..Len(self) : ValidateStage(self[i]) # "none"}
    IN  IF bad = {} THEN "none"
        ELSE ValidateStage(self[CHOOSE i \in bad : \A j \in bad : i <= j])

\* build() that hands over the list and starts a new one
BuildClears(self) ==
    LET e == validate_pipeline(self)
    IN  IF e # "none"
        THEN [raised |-> e, val |-> <<>>, stages |-> <<>>]
        ELSE [raised |-> "none", val |-> self, stages |-> <<>>]
\* build() that pops the stage that failed validation
BuildDropsInvalid(self) ==
    LET e == validate_pipeline(self)
    IN  IF e # "none"
        THEN [raised |-> e, val |-> <<>>,
              stages |-> SelectSeq(self, LAMBDA st : ValidateStage(st) = "none")]
        ELSE [raised |-> "none", val |-> self, stages |-> self]

\* AggBuilder.build: validate, then return self._pipeline.stages.copy()
build(self) ==
    LET e == validate_pipeline(self)
    IN  IF e # "none"
        THEN [raised |-> e, val |-> <<>>, stages |-> self]
        ELSE [raised |-> "none", val |-> self, stages |-> self]

(***************************************************************************)
(* to_json: json.dumps(self._pipeline.stages, indent=2, default=str).      *)
(* The text is modelled by the JSON document it spells: null, true/false,  *)
(* a number, a string, an array, or an object with string keys.            *)
(***************************************************************************)
JNull == [j |-> "null"]
JBool(b) == [j |-> "bool", jb |-> b]
JNum(n) == [j |-> "number", jn |-> n]
JStr(s) == [j |-> "string", js |-> s]
JArr(a) == [j |-> "array", ja |-> a]
JObj(m) == [j |-> "object", jm |-> m]

\* json.dumps can encode v: a dict key must be a str, int, float, bool or None
\* (default= is not asked about keys); any other value is encodable, through
\* default=str if json does not know its type
RECURSIVE Encodable(_)
Encodable(v) ==
    CASE v.t = "dict" ->
            IF IsStrDict(v) THEN \A k \in DOMAIN v.d : Encodable(v.d[k])
            ELSE IF "ik" \in DOMAIN v THEN Encodable(v.iv)
            ELSE FALSE
      [] v.t = "list" -> \A i \in 1..Len(v.l) : Encodable(v.l[i])
      [] OTHER -> TRUE

\* the document json.dumps writes for an encodable v: an int key is written as the
\* string of its digits, a value of an unknown type as the string str() gives
RECURSIVE Encode(_)
Encode(v) ==
    CASE v.t = "none" -> JNull
      [] v.t = "bool" -> JBool(v.b)
      [] v.t = "int" -> JNum(v.n)
      [] v.t = "str" -> JStr(v.s)
      [] v.t = "list" -> JArr([i \in 1..Len(v.l) |-> Encode(v.l[i])])
      [] v.t = "dict" ->
            IF IsStrDict(v) THEN JObj([k \in DOMAIN v.d |-> Encode(v.d[k])])
            ELSE JObj(ToString(v.ik) :> Encode(v.iv))
      [] v.t = "object" -> JStr(v.r)

\* json.dumps(v, indent=2, default=str)
json_dumps(v) == IF Encodable(v) THEN Returns(Encode(v)) ELSE Raises("TypeError")

\* json.loads of a text that spells document x
RECURSIVE json_loads(_)
json_loads(x) ==
    CASE x.j = "null" -> None
      [] x.j = "bool" -> PyBool(x.jb)
      [] x.j = "number" -> PyInt(x.jn)
      [] x.j = "string" -> PyStr(x.js)
      [] x.j = "array" -> PyList([i \in 1..Len(x.ja) |-> json_loads(x.ja[i])])
      [] x.j = "object" -> PyDict([k \in DOMAIN x.jm |-> json_loads(x.jm[k])])

\* AggBuilder.to_json: the stages are dumped as they are; TypeError and ValueError
\* become PipelineSerializationError
to_json(self) ==
    LET r == json_dumps(PyList(self))
    IN  IF r.raised \in {"TypeError", "ValueError"}
        THEN Raises("PipelineSerializationError")
        ELSE r

\* the builders of the model and the Pipeline objects they can hold
Builders == {"outer", "nested"}
Own(b) == IF b = "outer" THEN "P_outer" ELSE "P_nested"
Pipelines == {"P_outer", "P_nested", "P_caller"}

\* self._pipeline.stages of builder b
ContainerOf(b) == stages[pipeline[b]]

\* a builder passed as an argument
BuilderRef(b) == [t |-> "builder", b |-> b]
IsBuilder(x) == x.t = "builder"

match(self, query) == AddConstructed(self, MatchStage(query))
filter(self, query) == match(self, query)
match_expr(self, e) == AddConstructed(self, MatchStage(PyDict("$expr" :> e)))
expr(self, e) == AddConstructed(self, MatchStage(PyDict("$expr" :> e)))
project(self, spec) == AddConstructed(self, ProjectStage(spec))
fields(self, spec) == project(self, spec)
\* safe_project: {field: 1 for field in fields}
safe_project(self, names) ==
    project(self, PyDict([f \in {names[i] : i \in 1..Len(names)} |-> PyInt(1)]))
select(self, names) == safe_project(self, names)
sort(self, spec) == AddConstructed(self, SortStage(spec))
order_by(self, spec) == sort(self, spec)
limit(self, n) == AddConstructed(self, LimitStage(n))
skip(self, n) == AddConstructed(self, SkipStage(n))
\* an argument the caller leaves out
Omitted == [t |-> "omitted"]
\* unwind() adding the short form as a raw stage
UnwindShortForm(self, path, preserve_null_and_empty) ==
    add(self, PyDict("$unwind" :> path))
\* AggBuilder.unwind: preserve_null_and_empty defaults to True
unwind(self, path, preserve_null_and_empty) ==
    AddConstructed(self,
        UnwindStage(path, IF preserve_null_and_empty.t = "omitted"
                          THEN PyBool(TRUE) ELSE preserve_null_and_empty))
group(self, id_field, accumulators) ==
    AddConstructed(self, GroupStage(id_field, accumulators))
add_fields(self, spec) == AddConstructed(self, AddFieldsStage(spec))
replace_root(self, new_root) == AddConstructed(self, ReplaceRootStage(new_root))
facet(self, pipelines) == AddConstructed(self, FacetStage(pipelines))
redact(self, condition) == AddConstructed(self, RedactStage(condition))
comment(self, text) == AddConstructed(self, CommentStage(text))

\* the loop with insert(0, ...) and a builder's stages spliced in front
RECURSIVE CollectStagesReversed(_, _)
CollectStagesReversed(items, acc) ==
    IF items = <<>> THEN [raised |-> "none", val |-> acc]
    ELSE LET p == Head(items)
         IN  IF IsBuilder(p)
             THEN LET r == build(ContainerOf(p.b))
                  IN  IF r.raised # "none" THEN [raised |-> r.raised, val |-> <<>>]
                      ELSE CollectStagesReversed(Tail(items), r.val \o acc)
             ELSE CollectStagesReversed(Tail(items), <<p>> \o acc)

\* lookup, the loop over a list given as pipeline: a builder contributes its
\* build(), any other item itself; a build() that raises ends the call
RECURSIVE CollectStages(_, _)
CollectStages(items, acc) ==
    IF items = <<>> THEN [raised |-> "none", val |-> acc]
    ELSE LET p == Head(items)
         IN  IF IsBuilder(p)
             THEN LET r == build(ContainerOf(p.b))
                  IN  IF r.raised # "none" THEN [raised |-> r.raised, val |-> <<>>]
                      ELSE CollectStages(Tail(items), acc \o r.val)
             ELSE CollectStages(Tail(items), Append(acc, p))

\* lookup() with `and` for `or` in the check of the two fields
LookupNeedsOneField(self, from_, as_, local_field, foreign_field, let_, pipeline_) ==
    IF pipeline_.t # "none"
    THEN LET st == IF IsBuilder(pipeline_)
                   THEN build(ContainerOf(pipeline_.b))
                   ELSE CollectStages(pipeline_.l, <<>>)
         IN  IF st.raised # "none" THEN Failed(st.raised, self)
             ELSE AddConstructed(self,
                    LookupStage(from_, as_, local_field, foreign_field, let_,
                                PyList(st.val)))
    ELSE IF ~Truthy(local_field) /\ ~Truthy(foreign_field)
    THEN Failed("InvalidLookupError", self)
    ELSE AddConstructed(self,
            LookupStage(from_, as_, local_field, foreign_field, let_, pipeline_))

\* lookup() that stores what the nested builders gave and leaves their failures to
\* the outer build()
LookupLazy(self, from_, as_, local_field, foreign_field, let_, pipeline_) ==
    IF pipeline_.t # "none"
    THEN LET st == IF IsBuilder(pipeline_)
                   THEN build(ContainerOf(pipeline_.b))
                   ELSE CollectStages(pipeline_.l, <<>>)
         IN  AddConstructed(self,
                LookupStage(from_, as_, local_field, foreign_field, let_,
                            PyList(st.val)))
    ELSE IF ~Truthy(local_field) \/ ~Truthy(foreign_field)
    THEN Failed("InvalidLookupError", self)
    ELSE AddConstructed(self,
            LookupStage(from_, as_, local_field, foreign_field, let_, pipeline_))

\* AggBuilder.lookup
lookup(self, from_, as_, local_field, foreign_field, let_, pipeline_) ==
    IF pipeline_.t # "none"
    THEN LET st == IF IsBuilder(pipeline_)
                   THEN build(ContainerOf(pipeline_.b))
                   ELSE CollectStages(pipeline_.l, <<>>)
         IN  IF st.raised # "none" THEN Failed(st.raised, self)
             ELSE AddConstructed(self,
                    LookupStage(from_, as_, local_field, foreign_field, let_,
                                PyList(st.val)))
    ELSE IF ~Truthy(local_field) \/ ~Truthy(foreign_field)
    THEN Failed("InvalidLookupError", self)
    ELSE AddConstructed(self,
            LookupStage(from_, as_, local_field, foreign_field, let_, pipeline_))

(***************************************************************************)
(* The arguments the calls of the model are made with.                     *)
(***************************************************************************)
Queries == {PyDict("status" :> PyStr("active"))}
Exprs == {PyDict("$eq" :> PyList(<<PyStr("$a"), PyStr("$$b")>>))}
ProjectSpecs == {PyDict("name" :> PyInt(1))}
FieldLists == {<<"name">>}
SortSpecs ==
    {PyDict("age" :> PyInt(-1)), PyDict("age" :> PyInt(2)), PyDict("age" :> PyBool(TRUE))}
Counts == {PyInt(10), PyInt(-1)}
Paths == {PyStr("$tags")}
UnwindFlags == {Omitted, PyBool(TRUE), PyBool(FALSE), PyInt(0), PyStr("True")}
GroupKeys == {PyStr("$department")}
Accumulators == {PyDict("total" :> PyDict("$sum" :> PyStr("$salary"))),
                 PyDict("_id" :> PyDict("$sum" :> PyInt(1)))}
NewFields == {PyDict("total" :> PyStr("$price"))}
NewRoots == {PyDict("$mergeObjects" :> PyStr("$doc"))}
Facets == {PyDict("total" :> PyList(<<PyDict("$count" :> PyStr("total"))>>))}
Conditions == {PyDict("$cond" :> PyStr("$$PRUNE"))}
Comments == {PyStr("note")}
JoinFields == {None, PyStr(""), PyStr("userId")}

\* raw values given to add(): well-formed stages, and the ways of not being one
RawStages ==
    { PyDict("$sort" :> PyDict("age" :> PyBool(TRUE))),
      PyDict("$unwind" :> PyStr("$tags")),
      PyStr("stage"),
      PyDict(EmptyMap),
      PyDict(("$match" :> PyDict(EmptyMap)) @@ ("$limit" :> PyInt(1))),
      PyDict("invalid" :> PyStr("stage")),
      IntKeyDict(1, PyStr("x")) }

\* typed stages given to add() directly
TypedStages == {MatchStage(PyDict("status" :> PyStr("active"))).val}

\* the stage lists a caller-supplied Pipeline is constructed with
Seeds == {<<>>, <<PyDict("invalid" :> PyStr("stage"))>>}

\* what lookup() is given as pipeline: a builder, or a list of raw stages and builders
SubPipelines(b) ==
    LET others == Builders \ {b}
    IN  {[let_ |-> PyDict("userId" :> PyStr("$_id")), pipeline |-> BuilderRef(nb)] :
            nb \in others}
        \cup {[let_ |-> None,
               pipeline |-> [t |-> "list",
                             l |-> <<PyDict("$limit" :> PyInt(1)), BuilderRef(nb)>>]] :
                nb \in others}

(***************************************************************************)
(* The state machine.                                                      *)
(***************************************************************************)
NoBuild == [done |-> FALSE, fresh |-> FALSE, raised |-> "none", ret |-> <<>>]
NoText == [j |-> "none"]

\* AggBuilder.__init__: `pipeline or Pipeline()`; a Pipeline object is truthy, so a
\* builder given one holds that very object.  Either each builder is created empty,
\* with a Pipeline of its own, or both are created on one Pipeline the caller made.
Init ==
    /\ \E seeded \in BOOLEAN, seed \in Seeds :
         /\ (~seeded => seed = <<>>)
         /\ pipeline = [b \in Builders |-> IF seeded THEN "P_caller" ELSE Own(b)]
         /\ stages = [p \in Pipelines |-> IF p = "P_caller" THEN seed ELSE <<>>]
    /\ last = [op |-> "init", b |-> "outer", raised |-> "none", ret |-> <<>>,
               wire |-> None, text |-> NoText, prev |-> NoBuild]
    /\ added = [b \in Builders |-> <<>>]

\* the latest build() of builder b, as long as every call since was made on b:
\* what it raised or returned, and whether b's container is still the one it read
Carried(b) ==
    IF last.b = b /\ last.op = "build"
    THEN [done |-> TRUE, fresh |-> TRUE, raised |-> last.raised, ret |-> last.ret]
    ELSE IF last.b = b THEN last.prev ELSE NoBuild

\* a stored $lookup stage whose 'pipeline' list is the list `old` follows it to `new`
FollowingList(stage, old, new) ==
    IF /\ IsStrDict(stage) /\ DOMAIN stage.d = {"$lookup"}
       /\ HasKey(stage.d["$lookup"], "pipeline")
       /\ stage.d["$lookup"].d["pipeline"] = PyList(old)
    THEN PyDict("$lookup" :> PyDict(("pipeline" :> PyList(new)) @@ stage.d["$lookup"].d))
    ELSE stage

\* a call on a builder whose container list is the very list earlier lookup()
\* calls stored as nested pipeline
CallThroughSharedList(b, op, r) ==
    /\ stages' = [p \in Pipelines |->
                    IF p = pipeline[b] THEN r.stages
                    ELSE [i \in 1..Len(stages[p]) |->
                            FollowingList(stages[p][i], stages[pipeline[b]], r.stages)]]
    /\ last' = [op |-> op, b |-> b, raised |-> r.raised, ret |-> <<>>,
                wire |-> r.wire, text |-> NoText,
                prev |-> IF r.raised = "none"
                         THEN [Carried(b) EXCEPT !.fresh = FALSE] ELSE Carried(b)]
    /\ added' = IF r.raised = "none"
                THEN [added EXCEPT ![b] = Append(@, r.wire)] ELSE added
    /\ UNCHANGED pipeline

\* a call on a builder that took a copy of the Pipeline it was given
CallOnOwnCopy(b, op, r) ==
    /\ stages' = [stages EXCEPT ![Own(b)] = r.stages]
    /\ last' = [op |-> op, b |-> b, raised |-> r.raised, ret |-> <<>>,
                wire |-> r.wire, text |-> NoText,
                prev |-> IF r.raised = "none"
                         THEN [Carried(b) EXCEPT !.fresh = FALSE] ELSE Carried(b)]
    /\ added' = IF r.raised = "none"
                THEN [added EXCEPT ![b] = Append(@, r.wire)] ELSE added
    /\ UNCHANGED pipeline

\* a stage-adding call of method op on builder b that gave r
Call(b, op, r) ==
    /\ stages' = [stages EXCEPT ![pipeline[b]] = r.stages]
    /\ last' = [op |-> op, b |-> b, raised |-> r.raised, ret |-> <<>>,
                wire |-> r.wire, text |-> NoText,
                prev |-> IF r.raised = "none"
                         THEN [Carried(b) EXCEPT !.fresh = FALSE] ELSE Carried(b)]
    /\ added' = IF r.raised = "none"
                THEN [added EXCEPT ![b] = Append(@, r.wire)] ELSE added
    /\ UNCHANGED pipeline

\* the builders among what lookup() is given as pipeline
BuildersIn(pipeline_) ==
    IF IsBuilder(pipeline_) THEN {pipeline_.b}
    ELSE {pipeline_.l[i].b : i \in {j \in 1..Len(pipeline_.l) : IsBuilder(pipeline_.l[j])}}

\* a call that takes the stages out of the builders it reads
CallReadingDrains(b, op, r, read) ==
    /\ stages' = [p \in Pipelines |->
                    IF p = pipeline[b] THEN r.stages
                    ELSE IF \E nb \in read : pipeline[nb] = p
                    THEN <<>>
                    ELSE stages[p]]
    /\ last' = [op |-> op, b |-> b, raised |-> r.raised, ret |-> <<>>,
                wire |-> r.wire, text |-> NoText,
                prev |-> IF r.raised = "none"
                         THEN [Carried(b) EXCEPT !.fresh = FALSE] ELSE Carried(b)]
    /\ added' = IF r.raised = "none"
                THEN [added EXCEPT ![b] = Append(@, r.wire)] ELSE added
    /\ UNCHANGED pipeline

\* a stage-adding call of method op on builder b that gave r and that called build()
\* on the builders of `read`: their containers are what build() leaves
CallReading(b, op, r, read) ==
    /\ stages' = [p \in Pipelines |->
                    IF p = pipeline[b] THEN r.stages
                    ELSE IF \E nb \in read : pipeline[nb] = p
                    THEN build(stages[p]).stages
                    ELSE stages[p]]
    /\ last' = [op |-> op, b |-> b, raised |-> r.raised, ret |-> <<>>,
                wire |-> r.wire, text |-> NoText,
                prev |-> IF r.raised = "none"
                         THEN [Carried(b) EXCEPT !.fresh = FALSE] ELSE Carried(b)]
    /\ added' = IF r.raised = "none"
                THEN [added EXCEPT ![b] = Append(@, r.wire)] ELSE added
    /\ UNCHANGED pipeline

\* the model stops adding to a container of MaxStages stages
Room(b) == Len(ContainerOf(b)) < MaxStages

Add(b) ==
    /\ Room(b)
    /\ \E stage \in RawStages \cup TypedStages : Call(b, "add", add(ContainerOf(b), stage))

Match(b) ==
    /\ Room(b)
    /\ \E query \in Queries : Call(b, "match", match(ContainerOf(b), query))

Filter(b) ==
    /\ Room(b)
    /\ \E query \in Queries : Call(b, "filter", filter(ContainerOf(b), query))

MatchExpr(b) ==
    /\ Room(b)
    /\ \E e \in Exprs : Call(b, "match_expr", match_expr(ContainerOf(b), e))

Expr(b) ==
    /\ Room(b)
    /\ \E e \in Exprs : Call(b, "expr", expr(ContainerOf(b), e))

Project(b) ==
    /\ Room(b)
    /\ \E spec \in ProjectSpecs : Call(b, "project", project(ContainerOf(b), spec))

Fields(b) ==
    /\ Room(b)
    /\ \E spec \in ProjectSpecs : Call(b, "fields", fields(ContainerOf(b), spec))

SafeProject(b) ==
    /\ Room(b)
    /\ \E names \in FieldLists :
         Call(b, "safe_project", safe_project(ContainerOf(b), names))

Select(b) ==
    /\ Room(b)
    /\ \E names \in FieldLists : Call(b, "select", select(ContainerOf(b), names))

Sort(b) ==
    /\ Room(b)
    /\ \E spec \in SortSpecs : Call(b, "sort", sort(ContainerOf(b), spec))

OrderBy(b) ==
    /\ Room(b)
    /\ \E spec \in SortSpecs : Call(b, "order_by", order_by(ContainerOf(b), spec))

Limit(b) ==
    /\ Room(b)
    /\ \E n \in Counts : Call(b, "limit", limit(ContainerOf(b), n))

Skip(b) ==
    /\ Room(b)
    /\ \E n \in Counts : Call(b, "skip", skip(ContainerOf(b), n))

Unwind(b) ==
    /\ Room(b)
    /\ \E path \in Paths, flag \in UnwindFlags :
         Call(b, "unwind", unwind(ContainerOf(b), path, flag))

Group(b) ==
    /\ Room(b)
    /\ \E id_field \in GroupKeys, acc \in Accumulators :
         Call(b, "group", group(ContainerOf(b), id_field, acc))

AddFields(b) ==
    /\ Room(b)
    /\ \E spec \in NewFields : Call(b, "add_fields", add_fields(ContainerOf(b), spec))

ReplaceRoot(b) ==
    /\ Room(b)
    /\ \E new_root \in NewRoots :
         Call(b, "replace_root", replace_root(ContainerOf(b), new_root))

Lookup(b) ==
    /\ Room(b)
    /\ \/ \E local_field \in JoinFields, foreign_field \in JoinFields :
            Call(b, "lookup",
                 lookup(ContainerOf(b), PyStr("orders"), PyStr("orders"),
                        local_field, foreign_field, None, None))
       \/ \E arg \in SubPipelines(b) :
            CallReading(b, "lookup",
                 lookup(ContainerOf(b), PyStr("orders"), PyStr("orders"),
                        None, None, arg.let_, arg.pipeline),
                 BuildersIn(arg.pipeline))

Facet(b) ==
    /\ Room(b)
    /\ \E pipelines \in Facets : Call(b, "facet", facet(ContainerOf(b), pipelines))

Redact(b) ==
    /\ Room(b)
    /\ \E condition \in Conditions :
         Call(b, "redact", redact(ContainerOf(b), condition))

Comment(b) ==
    /\ Room(b)
    /\ \E text \in Comments : Call(b, "comment", comment(ContainerOf(b), text))

Build(b) ==
    LET r == build(ContainerOf(b))
    IN  /\ stages' = [stages EXCEPT ![pipeline[b]] = r.stages]
        /\ last' = [op |-> "build", b |-> b, raised |-> r.raised, ret |-> r.val,
                    wire |-> None, text |-> NoText, prev |-> Carried(b)]
        /\ UNCHANGED <<pipeline, added>>

\* the calls of the model: every method is called on the outer builder; the nested
\* builder, the one given to lookup(), is filled with sort() alone
Next ==
    \/ \E b \in Builders :
        \/ Sort(b)
        \/ Build(b)
    \/ \E b \in {"outer"} :
        \/ Add(b)
        \/ Match(b)
        \/ Filter(b)
        \/ MatchExpr(b)
        \/ Expr(b)
        \/ Project(b)
        \/ Fields(b)
        \/ SafeProject(b)
        \/ Select(b)
        \/ OrderBy(b)
        \/ Limit(b)
        \/ Skip(b)
        \/ Unwind(b)
        \/ Group(b)
        \/ AddFields(b)
        \/ ReplaceRoot(b)
        \/ Lookup(b)
        \/ Facet(b)
        \/ Redact(b)
        \/ Comment(b)

Spec == Init /\ [][Next]_vars

(***************************************************************************)
(* A second specification: one builder, created empty, is given raw        *)
(* mappings with add(), built and serialized, and its caller changes the   *)
(* list build() returned.                                                  *)
(***************************************************************************)
\* raw $lookup payloads: every choice of the keys the validator asks about
LookupPayloads ==
    { PyDict([k \in ks |-> PyStr("orders")]
             @@ (IF p = "absent" THEN EmptyMap
                 ELSE IF p = "list" THEN "pipeline" :> PyList(<<>>)
                 ELSE "pipeline" :> PyStr("orders"))
             @@ (IF l THEN "let" :> None ELSE EmptyMap)) :
        ks \in SUBSET {"from", "as", "localField", "foreignField"},
        p \in {"absent", "list", "str"},
        l \in BOOLEAN }
        \cup {PyStr("orders")}

\* raw stages whose payload json.dumps cannot write as it is, or cannot write at all
OddPayloads ==
    { PyDict("when" :> PyObject("<Thing>")),
      IntKeyDict(1, PyStr("x")),
      TupleKeyDict(<<1, 2>>, PyStr("x")) }

\* stages that break the single-key/'$' rule or a kind rule
BrokenStages == {PyDict("invalid" :> PyInt(1)), PyDict("$limit" :> PyInt(-1))}

\* lists of raw mappings with a broken stage among them
BrokenPipelines ==
    {PyList(<<broken>>) : broken \in BrokenStages}
    \cup {PyList(<<PyDict("$limit" :> PyInt(1)), PyDict("invalid" :> PyInt(1))>>)}

\* raw $lookup and $facet stages whose nested pipelines hold a broken stage
NestedMappings ==
    {PyDict("$lookup" :> PyDict(("from" :> PyStr("orders")) @@ ("as" :> PyStr("orders"))
                                @@ ("let" :> None) @@ ("pipeline" :> nested))) :
        nested \in BrokenPipelines}
    \cup {PyDict("$facet" :> PyDict("total" :> nested)) : nested \in BrokenPipelines}

RawMappings ==
    {PyDict("$lookup" :> payload) : payload \in LookupPayloads}
    \cup NestedMappings
    \cup {PyDict("$match" :> payload) : payload \in OddPayloads}
    \cup { PyDict("$match" :> PyDict("status" :> PyStr("active"))),
           PyDict("$sort" :> PyDict("age" :> PyInt(2))),
           PyDict("invalid" :> PyStr("stage")) }

RawInit ==
    /\ pipeline = [b \in Builders |-> Own(b)]
    /\ stages = [p \in Pipelines |-> <<>>]
    /\ last = [op |-> "init", b |-> "outer", raised |-> "none", ret |-> <<>>,
               wire |-> None, text |-> NoText, prev |-> NoBuild]
    /\ added = [b \in Builders |-> <<>>]

AddRaw(b) ==
    /\ Len(ContainerOf(b)) < MaxRaw
    /\ \E stage \in RawMappings : Call(b, "add", add(ContainerOf(b), stage))

\* lookup() given a list of raw mappings as pipeline
LookupList(b) ==
    /\ Len(ContainerOf(b)) < MaxRaw
    /\ \E nested \in BrokenPipelines :
         Call(b, "lookup",
              lookup(ContainerOf(b), PyStr("orders"), PyStr("orders"),
                     None, None, None, nested))

\* facet() given a sequence of raw mappings
FacetList(b) ==
    /\ Len(ContainerOf(b)) < MaxRaw
    /\ \E nested \in BrokenPipelines :
         Call(b, "facet", facet(ContainerOf(b), PyDict("total" :> nested)))

ToJson(b) ==
    LET r == to_json(ContainerOf(b))
    IN  /\ last' = [op |-> "to_json", b |-> b, raised |-> r.raised, ret |-> <<>>,
                    wire |-> None,
                    text |-> IF r.raised = "none" THEN r.val ELSE NoText,
                    prev |-> Carried(b)]
        /\ UNCHANGED <<pipeline, stages, added>>

\* what the caller of build() writes into an element of the list it was given
StageEdits(stage) ==
    { PyDict(EmptyMap),                           \* stage.clear()
      PyDict(stage.d @@ ("x" :> PyInt(1))) }      \* stage.setdefault("x", 1)

\* the caller changes the list build() returned: list.copy() made a new list, so
\* the container keeps its elements
CallerEditsList(b) ==
    /\ last.op = "build" /\ last.b = b /\ last.raised = "none"
    /\ \E ret \in { Append(last.ret, PyDict("$limit" :> PyInt(1))),
                     IF last.ret = <<>> THEN <<>> ELSE Tail(last.ret),
                     IF last.ret = <<>> THEN <<>>
                     ELSE [last.ret EXCEPT ![1] = PyDict("$limit" :> PyInt(1))] } :
         last' = [last EXCEPT !.op = "caller_list", !.ret = ret]
    /\ UNCHANGED <<pipeline, stages, added>>

\* the caller changes a mapping of the list build() returned: list.copy() copied
\* the references, so that mapping is the very object the container holds
CallerEditsStage(b) ==
    /\ last.op = "build" /\ last.b = b /\ last.raised = "none"
    /\ \E i \in 1..Len(last.ret) : \E edited \in StageEdits(last.ret[i]) :
         /\ last' = [last EXCEPT !.op = "caller_stage", !.ret[i] = edited]
         /\ stages' = [stages EXCEPT ![pipeline[b]][i] = edited]
    /\ UNCHANGED <<pipeline, added>>

RawNext ==
    \E b \in {"outer"} :
        \/ AddRaw(b)
        \/ LookupList(b)
        \/ FacetList(b)
        \/ Build(b)
        \/ ToJson(b)
        \/ CallerEditsList(b)
        \/ CallerEditsStage(b)

RawSpec == RawInit /\ [][RawNext]_vars

(***************************************************************************)
(* Properties.                                                             *)
(***************************************************************************)
\* s is an initial segment of q
IsPrefix(s, q) == Len(s) <= Len(q) /\ SubSeq(q, 1, Len(s)) = s

\* a mapping with exactly one key, and that key begins with '$'
SingleDollarKey(v) ==
    /\ IsDict(v)
    /\ DictLen(v) = 1
    /\ IsStr(FirstKey(v))
    /\ StartsWith(FirstKey(v).s, "$")

\* builder b was created empty: it holds a Pipeline of its own
CreatedEmpty(b) == pipeline[b] = Own(b)

\* the last call was build() and it returned
BuildReturned == last.op = "build" /\ last.raised = "none"

\* the last call was build() and it raised InvalidStageError
BuildFailed == last.op = "build" /\ last.raised = "InvalidStageError"

\* the $lookup stages among the stages of a list, in sub-pipeline form
PipelineLookups(q) ==
    {i \in 1..Len(q) : /\ SingleDollarKey(q[i])
                       /\ FirstKey(q[i]).s = "$lookup"
                       /\ HasKey(FirstValue(q[i]), "pipeline")}

\* what every stage-adding call of the model gives on builder b in this state
CallResults(b) ==
    LET self == ContainerOf(b)
    IN  {add(self, st) : st \in RawStages \cup TypedStages}
        \cup {match(self, q) : q \in Queries}
        \cup {match_expr(self, e) : e \in Exprs}
        \cup {project(self, sp) : sp \in ProjectSpecs}
        \cup {safe_project(self, names) : names \in FieldLists}
        \cup {sort(self, sp) : sp \in SortSpecs}
        \cup {limit(self, n) : n \in Counts}
        \cup {skip(self, n) : n \in Counts}
        \cup {unwind(self, path, flag) : path \in Paths, flag \in UnwindFlags}
        \cup {group(self, k, acc) : k \in GroupKeys, acc \in Accumulators}
        \cup {add_fields(self, sp) : sp \in NewFields}
        \cup {replace_root(self, r) : r \in NewRoots}
        \cup {lookup(self, PyStr("orders"), PyStr("orders"), lf, ff, None, None) :
                lf \in JoinFields, ff \in JoinFields}
        \cup {lookup(self, PyStr("orders"), PyStr("orders"), None, None,
                     arg.let_, arg.pipeline) : arg \in SubPipelines(b)}
        \cup {facet(self, f) : f \in Facets}
        \cup {redact(self, c) : c \in Conditions}
        \cup {comment(self, text) : text \in Comments}

\* C1: on a builder created empty, build() returns as many stages as there were
\* successful stage-adding calls on it; a lookup() given a sub-pipeline counts once,
\* however many stages its nested list holds.
C1_BuildLengthIsCallCount ==
    (BuildReturned /\ CreatedEmpty(last.b)) => Len(last.ret) = Len(added[last.b])

\* build() returned two stages on a builder created empty, one of them a $lookup
\* whose nested list holds two stages
C1_Witness ==
    /\ BuildReturned /\ CreatedEmpty(last.b)
    /\ Len(last.ret) = 2
    /\ \E i \in PipelineLookups(last.ret) :
         Len(FirstValue(last.ret[i]).d["pipeline"].l) >= 2

\* C2: the container is append-only and order-preserving: a successful stage-adding
\* call puts its wire form at the end and leaves the earlier elements as they were,
\* no call changes the container in any other way, and the i-th element build()
\* returns on a builder created empty is the wire form of its i-th successful call.
C2_AppendOnly ==
    /\ [][/\ \A p \in Pipelines : IsPrefix(stages[p], stages'[p])
          /\ (last'.op # "build" /\ last'.raised = "none") =>
                stages'[pipeline[last'.b]] = Append(stages[pipeline[last'.b]], last'.wire)
          /\ (last'.op = "build" \/ last'.raised # "none") => stages' = stages]_vars
    /\ []((BuildReturned /\ CreatedEmpty(last.b)) => last.ret = added[last.b])

\* build() returned two different stages in the order they were added
C2_Witness ==
    /\ BuildReturned /\ CreatedEmpty(last.b)
    /\ Len(last.ret) = 2 /\ last.ret[1] # last.ret[2]
    /\ last.ret = added[last.b]

\* C3: every element of what build() returns is a mapping with exactly one key,
\* beginning with '$', on builders created empty and on builders seeded with a
\* Pipeline of the caller alike.
C3_BuildReturnsWireStages ==
    BuildReturned => \A i \in 1..Len(last.ret) : SingleDollarKey(last.ret[i])

\* build() returned stages on a builder seeded with the caller's Pipeline
C3_Witness ==
    /\ BuildReturned /\ ~CreatedEmpty(last.b)
    /\ Len(last.ret) = MaxStages

\* C4 (as claimed): add() of a raw value that is not a dict with exactly one key
\* beginning with '$' raises InvalidStageError and appends nothing.
C4_BadRawAddRaisesInvalidStageError ==
    [][\A b \in Builders : \A st \in RawStages :
         (~SingleDollarKey(st) /\ Call(b, "add", add(ContainerOf(b), st))) =>
            (last'.raised = "InvalidStageError" /\ stages' = stages)]_vars

\* C5: build() never changes the container, whether it returns or raises.
C5_BuildLeavesContainer ==
    [][last'.op = "build" => stages' = stages]_vars

\* build() raised on a container that holds stages, and the container holds them still
C5_Witness ==
    /\ BuildFailed
    /\ Len(ContainerOf(last.b)) = MaxStages

\* C6: two build() calls on a builder with no stage added between them give the same
\* outcome (equal sequences, or the same error), and stages added after a build()
\* that returned extend what it returned.
C6_BuildIdempotent ==
    /\ (last.op = "build" /\ last.prev.done /\ last.prev.fresh) =>
          (last.raised = last.prev.raised /\ last.ret = last.prev.ret)
    /\ (BuildReturned /\ last.prev.done /\ last.prev.raised = "none") =>
          IsPrefix(last.prev.ret, last.ret)

\* build() returned twice in a row on a container that holds stages
C6_Witness ==
    /\ BuildReturned /\ last.prev.done /\ last.prev.fresh
    /\ last.prev.raised = "none"
    /\ Len(last.ret) >= 1

\* C7 (as claimed): after a build() that raised InvalidStageError, some stage-adding
\* call on the same builder makes a retried build() succeed.
C7_RepairByAppending ==
    BuildFailed =>
        \E r \in CallResults(last.b) : r.raised = "none" /\ build(r.stages).raised = "none"

\* C7 (amended): after a build() that raised InvalidStageError, the builder's
\* stage-adding calls only append, the offending stage stays, and every later build()
\* on that builder raises InvalidStageError again.
C7_FailedBuildStaysFailed ==
    /\ (last.op = "build" /\ last.prev.done /\ last.prev.raised = "InvalidStageError") =>
          last.raised = "InvalidStageError"
    /\ BuildFailed =>
          \A r \in CallResults(last.b) : build(r.stages).raised = "InvalidStageError"

\* build() raised, a well-formed stage was appended, and build() raised again
C7_Witness ==
    /\ BuildFailed
    /\ last.prev.done /\ last.prev.raised = "InvalidStageError" /\ ~last.prev.fresh
    /\ ValidateStage(ContainerOf(last.b)[Len(ContainerOf(last.b))]) = "none"

\* C8: lookup() without a pipeline and with local_field or foreign_field missing
\* raises InvalidLookupError at the call and appends nothing, so a later build()
\* gives what it gave before.
C8_LookupMissingFieldRaises ==
    [][\A b \in Builders : \A lf \in JoinFields, ff \in JoinFields :
         (/\ lf = None \/ ff = None
          /\ Call(b, "lookup",
                  lookup(ContainerOf(b), PyStr("orders"), PyStr("orders"),
                         lf, ff, None, None))) =>
            /\ last'.raised = "InvalidLookupError"
            /\ stages' = stages
            /\ \A x \in Builders : build(stages'[pipeline[x]]) = build(stages[pipeline[x]])]_vars

\* lookup() raised InvalidLookupError on a builder that holds stages
C8_Witness ==
    /\ last.op = "lookup" /\ last.raised = "InvalidLookupError"
    /\ Len(ContainerOf(last.b)) >= 1

\* what an item given to lookup() in a pipeline list contributes
Contribution(item) ==
    IF IsBuilder(item) THEN build(ContainerOf(item.b)).val ELSE <<item>>

\* the concatenation, in order, of what the items of a list contribute
RECURSIVE Concatenation(_)
Concatenation(items) ==
    IF items = <<>> THEN <<>>
    ELSE Contribution(Head(items)) \o Concatenation(Tail(items))

\* C9: the 'pipeline' field of the $lookup stage a sub-pipeline lookup() appends is
\* the in-order concatenation of what the items contribute: a nested builder its
\* build() output, a raw mapping itself; for a single nested builder it is that
\* builder's build() output.
C9_NestedPipelineIsConcatenation ==
    [][\A b \in Builders : \A arg \in SubPipelines(b) :
         (/\ Call(b, "lookup",
                  lookup(ContainerOf(b), PyStr("orders"), PyStr("orders"),
                         None, None, arg.let_, arg.pipeline))
          /\ last'.raised = "none") =>
            last'.wire.d["$lookup"].d["pipeline"] =
                PyList(IF IsBuilder(arg.pipeline)
                       THEN build(ContainerOf(arg.pipeline.b)).val
                       ELSE Concatenation(arg.pipeline.l))]_vars

\* lookup() appended a stage whose nested list holds a raw stage followed by the two
\* stages of a nested builder
C9_Witness ==
    /\ last.op = "lookup" /\ last.raised = "none"
    /\ HasKey(FirstValue(last.wire), "pipeline")
    /\ LET nested_list == FirstValue(last.wire).d["pipeline"].l
       IN  /\ Len(nested_list) = 3
           /\ nested_list[1] = PyDict("$limit" :> PyInt(1))
           /\ nested_list[2] # nested_list[3]

\* a direction that is exactly 1 or -1
CanonicalDirection(v) == v.t = "int" /\ v.n \in {1, -1}

\* the $sort stages of a list that hold a direction other than exactly 1 or -1
BadSorts(q) ==
    {i \in 1..Len(q) : /\ SingleDollarKey(q[i])
                       /\ FirstKey(q[i]).s = "$sort"
                       /\ IsDict(FirstValue(q[i]))
                       /\ \E v \in DictValues(FirstValue(q[i])) : ~CanonicalDirection(v)}

\* C10 (as claimed): build() on a container holding a $sort stage with a direction
\* that is not exactly 1 or -1 (true and false included) raises InvalidStageError.
C10_NonCanonicalDirectionFails ==
    (last.op = "build" /\ BadSorts(ContainerOf(last.b)) # {}) =>
        last.raised = "InvalidStageError"

\* C11: limit(n) and skip(n) with n < 0 fail at the call, while the stage is
\* constructed: nothing is appended, the container is as it was, and build() gives
\* on every builder what it gave before the call.
C11_NegativeCountFailsAtCall ==
    [][\A b \in Builders : \A n \in Counts :
         (/\ n.n < 0
          /\ \/ Call(b, "limit", limit(ContainerOf(b), n))
             \/ Call(b, "skip", skip(ContainerOf(b), n))) =>
            /\ last'.raised # "none"
            /\ stages' = stages
            /\ added' = added
            /\ \A x \in Builders : build(stages'[pipeline[x]]) = build(stages[pipeline[x]])]_vars

\* limit() or skip() raised while constructing its stage, on a builder whose
\* container holds a stage and passes validation
C11_Witness ==
    /\ last.op \in {"limit", "skip"} /\ last.raised = "ValidationError"
    /\ Len(ContainerOf(last.b)) >= 1
    /\ build(ContainerOf(last.b)).raised = "none"

\* the expanded form of an $unwind stage
ExpandedUnwind(path, flag) ==
    PyDict("$unwind" :> PyDict(("path" :> path)
                               @@ ("preserveNullAndEmptyArrays" :> PyBool(flag))))

\* an $unwind stage whose payload is a bare string
IsShortUnwind(v) ==
    SingleDollarKey(v) /\ FirstKey(v).s = "$unwind" /\ IsStr(FirstValue(v))

\* the boolean a flag given to unwind() stands for: true when it is left out
FlagGiven(flag) ==
    CASE flag.t = "omitted" -> TRUE
      [] flag.t = "bool" -> flag.b
      [] flag.t = "int" -> flag.n = 1
      [] flag.t = "str" -> StrLower(flag.s) \in TrueWords

\* C12: unwind(path, flag) appends {"$unwind": {"path": path,
\* "preserveNullAndEmptyArrays": flag}}, the flag being true when it is left out, and
\* never {"$unwind": path}; the only call that appends an $unwind stage with a bare
\* string is add() of a raw mapping.
C12_UnwindAppendsExpandedForm ==
    /\ [][\A b \in Builders : \A path \in Paths, flag \in UnwindFlags :
            Call(b, "unwind", unwind(ContainerOf(b), path, flag)) =>
                /\ last'.raised = "none"
                /\ last'.wire = ExpandedUnwind(path, FlagGiven(flag))
                /\ stages'[pipeline[b]] = Append(stages[pipeline[b]], last'.wire)]_vars
    /\ []((last.op \notin {"init", "build", "add"} /\ last.raised = "none") =>
             ~IsShortUnwind(last.wire))

\* unwind() with the flag false appended the expanded form after a raw
\* {"$unwind": "$tags"} given to add()
C12_Witness ==
    /\ last.op = "unwind" /\ last.raised = "none"
    /\ last.wire = ExpandedUnwind(PyStr("$tags"), FALSE)
    /\ ContainerOf(last.b) = <<PyDict("$unwind" :> PyStr("$tags")), last.wire>>

\* C13 (as claimed): to_json() runs build() first, so on a container build()
\* rejects it raises what build() raises and returns no text.
C13_ToJsonRunsBuild ==
    (last.op = "to_json" /\ build(ContainerOf(last.b)).raised # "none") =>
        last.raised = build(ContainerOf(last.b)).raised

\* C14 (as claimed): whenever to_json() returns, parsing its text gives a structure
\* equal to what build() returns for the same container.
C14_JsonRoundTrip ==
    (last.op = "to_json" /\ last.raised = "none") =>
        /\ build(ContainerOf(last.b)).raised = "none"
        /\ json_loads(last.text) = PyList(build(ContainerOf(last.b)).val)

\* a value JSON can represent: null, a boolean, a number, a string, a list of such
\* values, or a mapping from strings to such values
RECURSIVE JsonRepresentable(_)
JsonRepresentable(v) ==
    CASE v.t \in {"none", "bool", "int", "str"} -> TRUE
      [] v.t = "list" -> \A i \in 1..Len(v.l) : JsonRepresentable(v.l[i])
      [] v.t = "dict" -> IsStrDict(v) /\ \A k \in DOMAIN v.d : JsonRepresentable(v.d[k])
      [] OTHER -> FALSE

\* C15 (as claimed): to_json() on a container holding a value JSON cannot represent
\* raises PipelineSerializationError and returns no text.
C15_UnrepresentableValueFailsToJson ==
    (last.op = "to_json" /\ ~JsonRepresentable(PyList(ContainerOf(last.b)))) =>
        last.raised = "PipelineSerializationError"

\* the errors of the builder's own base category, AggBuilderError
AggBuilderErrors ==
    {"InvalidStageError", "InvalidLookupError", "PipelineSerializationError"}

\* C16 (as claimed): whatever a builder operation raises is an AggBuilderError.
C16_EveryErrorIsAggBuilderError ==
    last.raised # "none" => last.raised \in AggBuilderErrors

\* the $lookup stages of a list
LookupStages(q) ==
    {i \in 1..Len(q) : SingleDollarKey(q[i]) /\ FirstKey(q[i]).s = "$lookup"}

\* the rule of the claim for the payload of a $lookup stage
LookupAccepted(payload) ==
    /\ IsDict(payload)
    /\ HasKey(payload, "from") /\ HasKey(payload, "as")
    /\ ~HasKey(payload, "pipeline") =>
            (HasKey(payload, "localField") /\ HasKey(payload, "foreignField"))
    /\ HasKey(payload, "pipeline") =>
            (IsList(payload.d["pipeline"]) /\ HasKey(payload, "let"))

\* C17: build() on a container holding $lookup stages (its other stages being
\* acceptable) returns exactly when every $lookup payload is a mapping with 'from' and
\* 'as' and, without 'pipeline', with 'localField' and 'foreignField', and, with
\* 'pipeline', with a list there and a 'let' key, whatever its value; otherwise it
\* raises InvalidStageError.
C17_LookupValidation ==
    LET c == ContainerOf(last.b)
    IN  (/\ last.op = "build"
         /\ LookupStages(c) # {}
         /\ \A i \in (1..Len(c)) \ LookupStages(c) : ValidateStage(c[i]) = "none") =>
            /\ last.raised \in {"none", "InvalidStageError"}
            /\ last.raised = "none" <=>
                  \A i \in LookupStages(c) : LookupAccepted(FirstValue(c[i]))

\* build() raised InvalidStageError for a raw $lookup with 'from', 'as' and a
\* 'pipeline' list but no 'let' key
C17_Witness ==
    /\ BuildFailed
    /\ \E i \in LookupStages(ContainerOf(last.b)) :
         LET payload == FirstValue(ContainerOf(last.b)[i])
         IN  /\ HasKey(payload, "from") /\ HasKey(payload, "as")
             /\ HasKey(payload, "pipeline") /\ IsList(payload.d["pipeline"])
             /\ ~HasKey(payload, "let")

\* the $lookup stages of a list that lookup() appended for a sub-pipeline given
\* without bound variables: let_ was left to None
UnboundPipelineLookups(q) ==
    {i \in PipelineLookups(q) :
        ~HasKey(FirstValue(q[i]), "let") \/ FirstValue(q[i]).d["let"] = None}

\* C18 (as claimed): after lookup(from_, as_, pipeline=P) with let_ left out has
\* appended its stage, build() raises InvalidStageError.
C18_UnboundPipelineLookupFailsBuild ==
    (last.op = "build" /\ UnboundPipelineLookups(ContainerOf(last.b)) # {}) =>
        last.raised = "InvalidStageError"

\* C18 (amended): lookup(from_, as_, pipeline=P) with let_ left out appends a stage
\* that has the key 'let' with the value None; the validator asks for the key only,
\* so build() does not raise on account of that stage: it returns when the other
\* stages of the container are acceptable.
C18_UnboundPipelineLookupPassesBuild ==
    /\ (/\ last.op = "lookup" /\ last.raised = "none"
        /\ HasKey(FirstValue(last.wire), "pipeline")) =>
            HasKey(FirstValue(last.wire), "let")
    /\ LET c == ContainerOf(last.b)
       IN  (/\ last.op = "build"
            /\ UnboundPipelineLookups(c) # {}
            /\ \A i \in (1..Len(c)) \ UnboundPipelineLookups(c) :
                    ValidateStage(c[i]) = "none") =>
                last.raised = "none" /\ last.ret = c

\* build() returned a $lookup stage appended for a sub-pipeline without bound
\* variables, 'let' being None in it
C18_Witness ==
    /\ BuildReturned
    /\ \E i \in UnboundPipelineLookups(last.ret) :
         /\ HasKey(FirstValue(last.ret[i]), "let")
         /\ Len(FirstValue(last.ret[i]).d["pipeline"].l) >= 2

\* C19 (as claimed): nothing the caller does to the value build() returned (to the
\* list or to a stage mapping in it) changes the container or what a later build()
\* gives.
C19_ReturnedValueIsDefensiveCopy ==
    [][last'.op \in {"caller_list", "caller_stage"} =>
          /\ stages' = stages
          /\ \A b \in Builders :
                build(stages'[pipeline[b]]) = build(stages[pipeline[b]])]_vars

\* C20 (as claimed): every element of every builder's container, created empty or
\* seeded with a Pipeline of the caller, is a mapping with exactly one key beginning
\* with '$'.
C20_ContainerHoldsWireStages ==
    \A b \in Builders :
        \A i \in 1..Len(ContainerOf(b)) : SingleDollarKey(ContainerOf(b)[i])

\* C20 (amended): every element of the container of a builder created empty is a
\* mapping with exactly one key beginning with '$', after any sequence of add() and
\* convenience-method calls, successful or failed.
C20_CreatedEmptyHoldsWireStages ==
    \A b \in Builders :
        CreatedEmpty(b) =>
            \A i \in 1..Len(ContainerOf(b)) : SingleDollarKey(ContainerOf(b)[i])

\* add() of a raw value has just failed on a builder created empty whose container
\* holds a stage
C20_Witness ==
    /\ last.op = "add" /\ last.raised # "none"
    /\ CreatedEmpty(last.b)
    /\ Len(ContainerOf(last.b)) >= 1

\* the step is lookup() on builder b with sub-pipeline argument arg
LookupStep(b, arg) ==
    CallReading(b, "lookup",
        lookup(ContainerOf(b), PyStr("orders"), PyStr("orders"),
               None, None, arg.let_, arg.pipeline),
        BuildersIn(arg.pipeline))

\* what an item of a pipeline list contributes when the containers are st
ContributionIn(st, item) ==
    IF IsBuilder(item) THEN build(st[pipeline[item.b]]).val ELSE <<item>>

RECURSIVE ConcatenationIn(_, _)
ConcatenationIn(st, items) ==
    IF items = <<>> THEN <<>>
    ELSE ContributionIn(st, Head(items)) \o ConcatenationIn(st, Tail(items))

\* the nested pipeline lookup() makes of arg when the containers are st
NestedPipelineIn(st, arg) ==
    PyList(IF IsBuilder(arg.pipeline)
           THEN build(st[pipeline[arg.pipeline.b]]).val
           ELSE ConcatenationIn(st, arg.pipeline.l))

\* C21 (as claimed): lookup() given a nested builder, alone or in a list, leaves that
\* builder's container as it was, and the same call made again gives an equal
\* nested pipeline: the one stored is the one the containers give after the call.
C21_LookupOnlyReadsNested ==
    [][\A b \in Builders : \A arg \in SubPipelines(b) :
         (last'.op = "lookup" /\ last'.b = b /\ LookupStep(b, arg)) =>
            \A nb \in BuildersIn(arg.pipeline) :
                /\ stages'[pipeline[nb]] = stages[pipeline[nb]]
                /\ last'.raised = "none" =>
                      FirstValue(last'.wire).d["pipeline"] = NestedPipelineIn(stages', arg)]_vars

\* C21 (amended): lookup() given a nested builder that holds another Pipeline than
\* the outer builder leaves that builder's container as it was, and the same call
\* made again gives an equal nested pipeline.
C21_LookupOnlyReadsSeparateNested ==
    [][\A b \in Builders : \A arg \in SubPipelines(b) :
         (last'.op = "lookup" /\ last'.b = b /\ LookupStep(b, arg)) =>
            \A nb \in BuildersIn(arg.pipeline) :
                pipeline[nb] # pipeline[b] =>
                    /\ stages'[pipeline[nb]] = stages[pipeline[nb]]
                    /\ \A p \in Pipelines \ {pipeline[b]} : stages'[p] = stages[p]
                    /\ last'.raised = "none" =>
                          FirstValue(last'.wire).d["pipeline"] =
                              NestedPipelineIn(stages', arg)]_vars

\* the outer builder holds two $lookup stages made from the same nested builder, which
\* has a Pipeline of its own holding a stage; their nested pipelines are equal
C21_Witness ==
    /\ last.op = "lookup" /\ last.raised = "none" /\ last.b = "outer"
    /\ pipeline["nested"] # pipeline["outer"]
    /\ Len(ContainerOf("nested")) >= 1
    /\ LET c == ContainerOf("outer")
       IN  /\ PipelineLookups(c) = {1, 2}
           /\ FirstValue(c[1]).d["pipeline"] = PyList(ContainerOf("nested"))
           /\ FirstValue(c[2]).d["pipeline"] = FirstValue(c[1]).d["pipeline"]

\* C22: a successful group(id_field, **accumulators) appends {"$group": P} where
\* P["_id"] is id_field and P holds '_id' and exactly the accumulator names, each
\* accumulator with its expression.
C22_GroupPayload ==
    [][\A b \in Builders, id_field \in GroupKeys, acc \in Accumulators :
        (last'.op = "group" /\ last'.b = b /\ last'.raised = "none"
         /\ Call(b, "group", group(ContainerOf(b), id_field, acc)))
        => /\ FirstKey(last'.wire) = PyStr("$group")
           /\ FirstValue(last'.wire).d["_id"] = id_field
           /\ DOMAIN FirstValue(last'.wire).d = {"_id"} \cup DOMAIN acc.d
           /\ \A name \in DOMAIN acc.d \ {"_id"} :
                 FirstValue(last'.wire).d[name] = acc.d[name]]_vars

\* the typed convenience methods other than sort and order_by
KeepingMethods ==
    {"match", "filter", "match_expr", "expr", "project", "fields", "safe_project",
     "select", "limit", "skip", "unwind", "group", "add_fields", "replace_root",
     "lookup", "facet", "redact", "comment"}

\* C23: when build() succeeds on a builder, it still succeeds after any successful
\* call on it of a typed convenience method other than sort and order_by.
C23_ConvenienceKeepsValid ==
    [][(/\ last'.op \in KeepingMethods
        /\ last'.raised = "none"
        /\ stages'[pipeline[last'.b]] # stages[pipeline[last'.b]]
        /\ build(stages[pipeline[last'.b]]).raised = "none")
       => build(stages'[pipeline[last'.b]]).raised = "none"]_vars

\* C23 witness: both sides of the claim have happened on the outer builder: a
\* typed method other than sort kept a valid container valid, and the container it
\* left was then made invalid by a successful sort() or order_by().
C23_Witness ==
    /\ last.op \in {"sort", "order_by"}
    /\ last.b = "outer"
    /\ last.raised = "none"
    /\ pipeline["outer"] = "P_outer"
    /\ Len(ContainerOf("outer")) = 2
    /\ FirstKey(ContainerOf("outer")[1]).s \in {"$lookup", "$limit", "$group"}
    /\ added["outer"] = ContainerOf("outer")
    /\ build(SubSeq(ContainerOf("outer"), 1, 1)).raised = "none"
    /\ build(ContainerOf("outer")).raised = "InvalidStageError"

\* a stage with every nested pipeline it holds made empty
Hollowed(stage) ==
    IF ~(SingleDollarKey(stage) /\ IsStrDict(FirstValue(stage))) THEN stage
    ELSE LET payload == FirstValue(stage)
         IN  IF /\ FirstKey(stage).s = "$lookup"
                /\ HasKey(payload, "pipeline")
                /\ IsList(payload.d["pipeline"])
             THEN PyDict("$lookup" :> PyDict(("pipeline" :> PyList(<<>>)) @@ payload.d))
             ELSE IF /\ FirstKey(stage).s = "$facet"
                     /\ \A k \in DOMAIN payload.d : IsList(payload.d[k])
             THEN PyDict("$facet" :> PyDict([k \in DOMAIN payload.d |-> PyList(<<>>)]))
             ELSE stage

\* the nested stages a stage holds, in a $lookup 'pipeline' list or a $facet sequence
NestedStages(stage) ==
    IF ~(SingleDollarKey(stage) /\ IsStrDict(FirstValue(stage))) THEN {}
    ELSE LET payload == FirstValue(stage)
         IN  IF /\ FirstKey(stage).s = "$lookup"
                /\ HasKey(payload, "pipeline")
                /\ IsList(payload.d["pipeline"])
             THEN {payload.d["pipeline"].l[i] : i \in 1..Len(payload.d["pipeline"].l)}
             ELSE IF FirstKey(stage).s = "$facet"
             THEN UNION {{payload.d[k].l[i] : i \in 1..Len(payload.d[k].l)} :
                           k \in {n \in DOMAIN payload.d : IsList(payload.d[n])}}
             ELSE {}

\* C24: build() gives what it would give with every nested pipeline empty; a broken
\* stage inside a $lookup 'pipeline' list or a $facet sequence does not make it fail.
C24_ValidationIsTopLevelOnly ==
    last.op = "build" =>
        LET q == ContainerOf(last.b)
        IN  /\ last.raised = build([i \in 1..Len(q) |-> Hollowed(q[i])]).raised
            /\ (\A i \in 1..Len(q) : NestedStages(q[i]) # {}) => last.raised = "none"

\* C24 witness: build() returned a container whose $lookup stage holds, in its
\* 'pipeline' list, a stage that validation rejects at top level.
C24_Witness ==
    /\ BuildReturned
    /\ Len(ContainerOf(last.b)) >= 1
    /\ \E i \in 1..Len(ContainerOf(last.b)) :
         /\ FirstKey(ContainerOf(last.b)[i]).s = "$lookup"
         /\ \E nested \in NestedStages(ContainerOf(last.b)[i]) :
              ValidateStage(nested) = "InvalidStageError"

\* C25: a step that adds a stage to a builder's container leaves every $lookup stage
\* stored in another builder's container in place with the same nested 'pipeline'
\* list, and that builder's build(), when it returns, returns that same stage.
C25_LookupStoresSnapshot ==
    [][\A b \in Builders : \A nb \in Builders \ {b} :
         (/\ last'.b = nb
          /\ last'.raised = "none"
          /\ Len(stages'[pipeline[nb]]) > Len(stages[pipeline[nb]]))
         => \A i \in PipelineLookups(stages[pipeline[b]]) :
              /\ i <= Len(stages'[pipeline[b]])
              /\ stages'[pipeline[b]][i] = stages[pipeline[b]][i]
              /\ build(stages'[pipeline[b]]).raised = "none"
                    => build(stages'[pipeline[b]]).val[i] = stages[pipeline[b]][i]]_vars

\* C25 witness: the nested builder, holding a Pipeline of its own, has just been given
\* a second stage, and the outer builder's stored $lookup stage still holds the
\* one-stage list the nested builder had when lookup() was called.
C25_Witness ==
    /\ last.b = "nested" /\ last.op = "sort" /\ last.raised = "none"
    /\ pipeline["nested"] # pipeline["outer"]
    /\ Len(ContainerOf("nested")) = 2
    /\ \E i \in PipelineLookups(ContainerOf("outer")) :
         /\ FirstValue(ContainerOf("outer")[i]).d["pipeline"] =
                PyList(SubSeq(ContainerOf("nested"), 1, 1))
         /\ build(ContainerOf("outer")).raised = "none"
         /\ build(ContainerOf("outer")).val[i] = ContainerOf("outer")[i]

\* C26: lookup() given a nested builder, alone or after a valid raw mapping in a
\* list, whose own build() raises, raises InvalidStageError at the call and leaves
\* every container as it was.
C26_LookupValidatesNestedEagerly ==
    [][\A b \in Builders : \A arg \in SubPipelines(b) :
         (/\ last'.op = "lookup" /\ last'.b = b
          /\ LookupStep(b, arg)
          /\ \E nb \in BuildersIn(arg.pipeline) : build(ContainerOf(nb)).raised # "none")
         => /\ last'.raised = "InvalidStageError"
            /\ stages' = stages
            /\ added' = added]_vars

\* C26 witness: lookup() on the outer builder, which held a stage, raised
\* InvalidStageError because the nested builder holds sort({"age": 2}), and the outer
\* container holds no $lookup stage.
C26_Witness ==
    /\ last.op = "lookup" /\ last.b = "outer"
    /\ last.raised = "InvalidStageError"
    /\ pipeline["nested"] = "P_nested"
    /\ ContainerOf("nested") = <<PyDict("$sort" :> PyDict("age" :> PyInt(2)))>>
    /\ build(ContainerOf("nested")).raised = "InvalidStageError"
    /\ Len(ContainerOf("outer")) = 1
    /\ LookupStages(ContainerOf("outer")) = {}

\* builder b was constructed with the Pipeline the caller made
Seeded(b) == pipeline[b] = "P_caller"

\* C27: a stage added through a builder seeded with the caller's Pipeline is appended
\* to that Pipeline's own stage list, every builder seeded with it then holds the
\* grown list, and build() on any of them returns the caller's Pipeline's stages.
C27_SeededBuilderUsesCallersPipeline ==
    [][\A b \in Builders :
         (Seeded(b) /\ last'.b = b /\ last'.raised = "none") =>
            /\ last'.op \notin {"init", "build"} =>
                  /\ stages'["P_caller"] = Append(stages["P_caller"], last'.wire)
                  /\ \A ob \in Builders :
                        Seeded(ob) =>
                            stages'[pipeline[ob]] = Append(stages[pipeline[ob]], last'.wire)
            /\ last'.op = "build" => last'.ret = stages'["P_caller"]]_vars

\* C27 witness: both builders were seeded with one empty Pipeline, stages were added
\* through the outer builder only, and build() on the nested builder returned them.
C27_Witness ==
    /\ Seeded("outer") /\ Seeded("nested")
    /\ last.op = "build" /\ last.b = "nested" /\ last.raised = "none"
    /\ added["nested"] = <<>>
    /\ Len(added["outer"]) >= 1
    /\ last.ret = added["outer"]
    /\ stages["P_caller"] = added["outer"]

====
